---------------------------- MODULE Spec2Model ----------------------------
(***************************************************************************)
(* Model of the HTTP instrumentation middleware of                         *)
(* instrumentation/instrument.go: InstrumentHandlerFuncWithOpts, which     *)
(* builds four collectors and registers them with the default registry,   *)
(* the closure it returns, the response-writer delegators the closure     *)
(* hands to the wrapped handler, and the metrics it updates.               *)
(*                                                                         *)
(* Every request runs in its own goroutine.  One action is one step of    *)
(* one request that touches shared state at most once, so every           *)
(* interleaving of the metric updates of concurrent requests is explored. *)
(***************************************************************************)
EXTENDS Integers, Sequences, FiniteSets, Bags, TLC

\* ------------------------------------------------------------------ bounds
NumReqs == 2        \* requests served, at most
MaxCalls == 3       \* calls the handler of a lone request makes on its writer
ConcCalls == 2      \* calls the handlers of concurrent requests make, all together
MaxLen  == 2        \* longest payload of one Write / ReadFrom
NumMw   == 2        \* middlewares constructed over the one default registry

\* --------------------------------------------------------------- constants
StatusOK == 200     \* http.StatusOK

Reqs    == 1..NumReqs
Methods == {"GET", "PATCH"}             \* values of r.Method
Codes   == {StatusOK, 404}              \* codes handlers pass to WriteHeader

\* prometheus.Opts.ConstLabels, a set of <<name, value>>: what
\* InstrumentHandlerFunc(handlerName, ...) passes, and none at all, as a caller
\* of InstrumentHandlerFuncWithOpts may pass.
Handler(handlerName) == {<<"handler", handlerName>>}
NoLabels == {}
Opts == {Handler("a"), Handler("b"), NoLabels}

Mws == 1..NumMw

\* The optional interfaces a http.ResponseWriter may implement.
Caps == {"CloseNotifier", "Flusher", "Hijacker", "ReaderFrom", "Pusher", "stringWriter"}

\* ------------------------------------------------------------ pure helpers
Digit == <<"0", "1", "2", "3", "4", "5", "6", "7", "8", "9">>

RECURSIVE Itoa(_)
\* strconv.Itoa on the non-negative values a status can take here.
Itoa(n) == IF n < 10 THEN Digit[n + 1]
           ELSE Itoa(n \div 10) \o Digit[(n % 10) + 1]

\* The cases of the switch in sanitizeCode.
CodeTable ==
    (100 :> "100") @@ (101 :> "101") @@
    (200 :> "200") @@ (201 :> "201") @@ (202 :> "202") @@ (203 :> "203") @@
    (204 :> "204") @@ (205 :> "205") @@ (206 :> "206") @@
    (300 :> "300") @@ (301 :> "301") @@ (302 :> "302") @@ (304 :> "304") @@
    (305 :> "305") @@ (307 :> "307") @@
    (400 :> "400") @@ (401 :> "401") @@ (402 :> "402") @@ (403 :> "403") @@
    (404 :> "404") @@ (405 :> "405") @@ (406 :> "406") @@ (407 :> "407") @@
    (408 :> "408") @@ (409 :> "409") @@ (410 :> "410") @@ (411 :> "411") @@
    (412 :> "412") @@ (413 :> "413") @@ (414 :> "414") @@ (415 :> "415") @@
    (416 :> "416") @@ (417 :> "417") @@ (418 :> "418") @@
    (500 :> "500") @@ (501 :> "501") @@ (502 :> "502") @@ (503 :> "503") @@
    (504 :> "504") @@ (505 :> "505") @@
    (428 :> "428") @@ (429 :> "429") @@ (431 :> "431") @@ (511 :> "511")

sanitizeCode(s) == IF s \in DOMAIN CodeTable THEN CodeTable[s] ELSE Itoa(s)

\* strings.ToLower on the method names of Methods.
ToLower(m) == CASE m = "GET"   -> "get"
                [] m = "PATCH" -> "patch"

\* The cases of the switch in sanitizeMethod.
MethodTable ==
    [m \in {"GET", "get", "PUT", "put", "HEAD", "head", "POST", "post",
            "DELETE", "delete", "CONNECT", "connect", "OPTIONS", "options",
            "NOTIFY", "notify"} |->
        CASE m \in {"GET", "get"}         -> "get"
          [] m \in {"PUT", "put"}         -> "put"
          [] m \in {"HEAD", "head"}       -> "head"
          [] m \in {"POST", "post"}       -> "post"
          [] m \in {"DELETE", "delete"}   -> "delete"
          [] m \in {"CONNECT", "connect"} -> "connect"
          [] m \in {"OPTIONS", "options"} -> "options"
          [] m \in {"NOTIFY", "notify"}   -> "notify"]

sanitizeMethod(m) == IF m \in DOMAIN MethodTable THEN MethodTable[m] ELSE ToLower(m)


\* ------------------------------------------------------------------- state
VARIABLES
    registry,       \* prometheus.DefaultRegisterer: the collectors registered
    mw,             \* the metric handles each constructed middleware holds
    inFlightReq,    \* gauge vectors inflight_requests, by raw method label
    reqCnt,         \* counter vectors requests_total: bags of <<method, code>>
    reqDur,         \* histograms request_duration_seconds: observations made
    resSz,          \* summaries response_size_bytes: bags of observed values
    probes,         \* type assertions made on ResponseWriters to pick a variant
    w,              \* the interfaces the server's ResponseWriter type implements
    via,            \* the middleware each request is served through
    pc,             \* where each request is in the middleware closure
    outcome,        \* how the wrapped handler ended
    method,         \* r.Method of each request
    rw,             \* the delegator variant handed to the handler
    delegate,       \* the request's responseWriterDelegator and embedded writer
    call,           \* the last call the handler made on rw
    ret,            \* what that call returned to the handler
    calls,          \* calls the handlers have made so far, all together
    load            \* the workload: middlewares constructed, requests that
                    \* arrive, calls their handlers make, longest payload

vars == <<registry, mw, inFlightReq, reqCnt, reqDur, resSz, probes, w, via, pc,
          outcome, method, rw, delegate, call, ret, calls, load>>

metrics == <<inFlightReq, reqCnt, reqDur, resSz>>

\* What construction sets up and requests leave alone.
construction == <<registry, mw>>

\* ------------------------------------------------- responseWriterDelegator
\* One call received by the embedded http.ResponseWriter, with its result.
Call(op, arg, n, err) == [op |-> op, arg |-> arg, n |-> n, err |-> err]

\* The k-th call of a handler on rw.
HCall(op, arg, k) == [op |-> op, arg |-> arg, k |-> k]

NoCall == HCall("none", 0, 0)
NoRet  == <<0, FALSE>>

\* A delegator: the fields status, written and wroteHeader, and the embedded
\* ResponseWriter, of which the model keeps the calls it received during the
\* handler's latest call (sent), the bytes it accepted so far (bytes) and the
\* code of the first WriteHeader it received (first), which is the status
\* net/http puts on the wire.
Delegator(status, written, wroteHeader) ==
    [status |-> status, written |-> written, wroteHeader |-> wroteHeader,
     sent |-> <<>>, bytes |-> 0, first |-> 0]

\* No delegator exists outside the closure.
NoDelegator == Delegator(-1, -1, FALSE)

NewDelegatorStatusOK == Delegator(StatusOK, 0, FALSE)

\* delegate := &responseWriterDelegator{ResponseWriter: w}: Go zero values.
NewDelegator == Delegator(0, 0, FALSE)

\* The results a ResponseWriter may give for a payload of len bytes: it
\* accepts n <= len bytes, and reports an error exactly when n < len.
InnerResults(len) == {<<n, n < len>> : n \in 0..len}

\* The handler starts a new call on the delegator.
Begin(d) == [d EXCEPT !.sent = <<>>]

ForwardFlushCommits(d, op, arg, n, err) ==
    [d EXCEPT !.sent = Append(@, Call(op, arg, n, err)),
              !.bytes = @ + n,
              !.first = IF op = "WriteHeader" /\ @ = 0 THEN arg ELSE @,
              !.status = IF op = "Flush" /\ ~d.wroteHeader THEN StatusOK ELSE @,
              !.wroteHeader = IF op = "Flush" THEN TRUE ELSE @]

\* r.ResponseWriter.X(...): the embedded writer receives the call.
Forward(d, op, arg, n, err) ==
    [d EXCEPT !.sent = Append(@, Call(op, arg, n, err)),
              !.bytes = @ + n,
              !.first = IF op = "WriteHeader" /\ @ = 0 THEN arg ELSE @]

WriteHeaderOnce(d, code) ==
    IF d.wroteHeader THEN d
    ELSE Forward([d EXCEPT !.status = code, !.wroteHeader = TRUE], "WriteHeader", code, 0, FALSE)

WriteHeaderNoFlag(d, code) ==
    Forward([d EXCEPT !.status = code], "WriteHeader", code, 0, FALSE)

WriteHeader(d, code) ==
    Forward([d EXCEPT !.status = code, !.wroteHeader = TRUE], "WriteHeader", code, 0, FALSE)

ImplicitHeaderNever(d) == d

\* if !r.wroteHeader { r.WriteHeader(http.StatusOK) }
ImplicitHeader(d) == IF ~d.wroteHeader THEN WriteHeader(d, StatusOK) ELSE d

AccountRequested(d, requested, n) == [d EXCEPT !.written = @ + requested]

AccountLast(d, requested, n) == [d EXCEPT !.written = n]

\* r.written += int64(n)
Account(d, requested, n) == [d EXCEPT !.written = @ + n]

Write(d, len, n, err) == Account(Forward(ImplicitHeader(d), "Write", len, n, err), len, n)

ReadFrom(d, len, n, err) == Account(Forward(ImplicitHeader(d), "ReadFrom", len, n, err), len, n)

ReturnSwallowsError(n, err) == <<n, FALSE>>

\* return n, err
Return(n, err) == <<n, err>>

\* ------------------------------------------------------- variant selection
Fancy == {"CloseNotifier", "Flusher", "Hijacker", "ReaderFrom"}

SelectVariantAny(caps) == IF caps \cap Fancy # {} THEN "fancy" ELSE "delegate"

\* The four type assertions on w and the choice between
\* fancyResponseWriterDelegator and the plain delegator.
SelectVariant(caps) == IF Fancy \subseteq caps THEN "fancy" ELSE "delegate"

\* The optional interfaces each variant's method set implements.
Exposes(variant) == IF variant = "fancy" THEN Fancy ELSE {}

\* f.ResponseWriter.(I): the type assertion succeeds iff w implements I.
Asserts(caps, cap) == cap \in caps

\* The interface a pure-forward method asserts on the embedded writer.
ForwardOps == [CloseNotify |-> "CloseNotifier", Flush |-> "Flusher", Hijack |-> "Hijacker"]

ProbeCached(n) == IF n = 0 THEN Cardinality(Fancy) ELSE n

\* The type assertions w.(http.CloseNotifier), w.(http.Flusher),
\* w.(http.Hijacker) and w.(io.ReaderFrom) of one request, added to the n
\* made so far.
Probe(n) == n + Cardinality(Fancy)

\* ------------------------------------------------------------ registration
\* The four collectors InstrumentHandlerFuncWithOpts builds, in the order it
\* registers them.
Kinds == <<"inFlightReq", "reqCnt", "reqDur", "resSz">>

\* Namespace "", Subsystem "http" and the Name of each collector.
FqName == [inFlightReq |-> "http_inflight_requests",
           reqCnt      |-> "http_requests_total",
           reqDur      |-> "http_request_duration_seconds",
           resSz       |-> "http_response_size_bytes"]

\* The variable labels of each collector.
VarLabels == [inFlightReq |-> {"method"},
              reqCnt      |-> {"method", "code"},
              reqDur      |-> {},
              resSz       |-> {}]

\* The ConstLabels each collector is built with: CounterOpts and SummaryOpts
\* take opts.ConstLabels, GaugeOpts and HistogramOpts set none.
ConstLabels(kind, opts) == IF kind \in {"reqCnt", "resSz"} THEN opts ELSE NoLabels

\* prometheus.NewGaugeVec / NewCounterVec / NewHistogram / NewSummary called
\* by the construction of middleware i: a collector of its own, at zero.
NewCollector(kind, opts, i) ==
    [kind |-> kind, labels |-> ConstLabels(kind, opts), by |-> i]

\* What the registry tells collectors apart by: the fully-qualified name and
\* the values of the constant labels.
DescID(c) == <<FqName[c.kind], {l[2] : l \in c.labels}>>

\* The label names of a collector; all collectors of one fully-qualified
\* name must agree on them.
Dims(c) == {l[1] : l \in c.labels} \cup VarLabels[c.kind]

\* prometheus.Register(c) on the registry reg: AlreadyRegisteredError with the
\* collector registered first when one of c's identity is there, another
\* error when c's name is registered with other label names, else c is
\* registered.
Register(reg, c) ==
    IF \E e \in reg : DescID(e) = DescID(c)
    THEN [err |-> "AlreadyRegisteredError", reg |-> reg,
          ExistingCollector |-> CHOOSE e \in reg : DescID(e) = DescID(c)]
    ELSE IF \E e \in reg : FqName[e.kind] = FqName[c.kind] /\ Dims(e) # Dims(c)
    THEN [err |-> "error", reg |-> reg, ExistingCollector |-> c]
    ELSE [err |-> "nil", reg |-> reg \cup {c}, ExistingCollector |-> c]

KeepOwn(c, res) == c

\* if err := prometheus.Register(x); err != nil {
\*     if are, ok := err.(prometheus.AlreadyRegisteredError); ok {
\*         x = are.ExistingCollector.(...)
\* the handle the construction goes on with.
Reuse(c, res) == IF res.err = "AlreadyRegisteredError" THEN res.ExistingCollector ELSE c

\* The registrations of the collectors from the k-th on, by the construction
\* of middleware i, from the state st of the registry and of the handles
\* obtained so far.  An error other than AlreadyRegisteredError panics, and
\* the construction ends there.
RECURSIVE Registrations(_, _, _, _)
Registrations(st, opts, i, k) ==
    IF k > Len(Kinds) \/ st.panicked THEN st
    ELSE LET c   == NewCollector(Kinds[k], opts, i)
             res == Register(st.reg, c)
         IN  Registrations(
                IF res.err = "error"
                THEN [st EXCEPT !.panicked = TRUE]
                ELSE [reg |-> res.reg, panicked |-> FALSE,
                      handles |-> st.handles @@ (Kinds[k] :> Reuse(c, res))],
                opts, i, k + 1)

\* No collector, no handle: the function of empty domain.
None == [c \in {} |-> 0]

\* No middleware i constructed yet; a construction that panicked returned none.
NoMw == [state |-> "none"]
Panicked == [state |-> "panicked"]

\* The closure a construction returned, holding its four handles.
Closure(handles) == [state |-> "closure", handles |-> handles]

\* -------------------------------------------------------------------- Init
\* The ResponseWriters of net/http: *response for HTTP/1.x, and
\* *http2responseWriter for HTTP/2.
HTTP1 == {"CloseNotifier", "Flusher", "Hijacker", "ReaderFrom", "stringWriter"}
HTTP2 == {"CloseNotifier", "Flusher", "Pusher", "stringWriter"}

\* The workloads explored.  Through one middleware: one request over a
\* ResponseWriter implementing any subset of the optional interfaces, its
\* handler making up to MaxCalls calls with payloads of up to MaxLen bytes; and
\* up to NumReqs concurrent requests over a writer of net/http, their handlers
\* making up to ConcCalls calls with payloads of one byte over HTTP/2, where
\* they get the plain delegator, and one call less over HTTP/1.x, where they
\* get the fancy one with its further methods.  Through NumMw
\* middlewares constructed with any Opts: up to NumReqs concurrent GET
\* requests over HTTP/1.x, their handlers writing nothing.
Workloads ==
    {[opts |-> <<Handler("a")>>, methods |-> Methods, w |-> c,
      reqs |-> 1, calls |-> MaxCalls, len |-> MaxLen] : c \in SUBSET Caps}
    \cup {[opts |-> <<Handler("a")>>, methods |-> Methods, w |-> HTTP2,
           reqs |-> NumReqs, calls |-> ConcCalls, len |-> 1]}
    \cup {[opts |-> <<Handler("a")>>, methods |-> Methods, w |-> HTTP1,
           reqs |-> NumReqs, calls |-> ConcCalls - 1, len |-> 1]}
    \cup {[opts |-> o, methods |-> {"GET"}, w |-> HTTP1,
           reqs |-> NumReqs, calls |-> 0, len |-> 1] : o \in [Mws -> Opts]}

\* The default registry is empty, no middleware is constructed, no request
\* has arrived, and the server hands out ResponseWriters of one type.
Init ==
    /\ registry = {}
    /\ mw = [i \in Mws |-> NoMw]
    /\ inFlightReq = None
    /\ reqCnt = None
    /\ reqDur = None
    /\ resSz = None
    /\ probes = 0
    /\ \E wl \in Workloads :
        /\ w = wl.w
        /\ load = [opts |-> wl.opts, methods |-> wl.methods,
                   reqs |-> wl.reqs, calls |-> wl.calls, len |-> wl.len]
    /\ via = [r \in Reqs |-> 0]
    /\ pc = [r \in Reqs |-> "idle"]
    /\ outcome = [r \in Reqs |-> "none"]
    /\ method = [r \in Reqs |-> "none"]
    /\ rw = [r \in Reqs |-> "none"]
    /\ delegate = [r \in Reqs |-> NoDelegator]
    /\ call = [r \in Reqs |-> NoCall]
    /\ ret = [r \in Reqs |-> NoRet]
    /\ calls = 0

\* ----------------------------------------------------------------- actions
\* A metric vector with no child yet.
GaugeZero == [m \in Methods |-> 0]

\* The values of the collectors of one kind, with those the handle h is new
\* to: a collector starts at zero.
Collected(values, h, zero) == IF h \in DOMAIN values THEN values ELSE values @@ (h :> zero)

\* InstrumentHandlerFuncWithOpts(load.opts[i], handlerFunc): the i-th
\* construction builds and registers its four collectors and returns the
\* closure, or panics.
Construct(i) ==
    /\ i <= Len(load.opts)
    /\ mw[i] = NoMw
    /\ \A j \in Mws : j < i => mw[j] # NoMw
    /\ LET st == Registrations([reg |-> registry, panicked |-> FALSE, handles |-> None],
                               load.opts[i], i, 1)
       IN  /\ registry' = st.reg
           /\ IF st.panicked
              THEN /\ mw' = [mw EXCEPT ![i] = Panicked]
                   /\ UNCHANGED metrics
              ELSE /\ mw' = [mw EXCEPT ![i] = Closure(st.handles)]
                   /\ inFlightReq' = Collected(inFlightReq, st.handles.inFlightReq, GaugeZero)
                   /\ reqCnt' = Collected(reqCnt, st.handles.reqCnt, EmptyBag)
                   /\ reqDur' = Collected(reqDur, st.handles.reqDur, 0)
                   /\ resSz' = Collected(resSz, st.handles.resSz, EmptyBag)
    /\ UNCHANGED <<probes, w, via, pc, outcome, method, rw, delegate, call, ret, calls, load>>

\* The handles of the closure serving request r.
handles(r) == mw[via[r]].handles

\* f := inFlightReq.WithLabelValues(r.Method); f.Inc()
GaugeInc(g, m) == [g EXCEPT ![m] = @ + 1]

GaugeDecMissing(g, m) == g

\* defer f.Dec()
GaugeDec(g, m) == [g EXCEPT ![m] = @ - 1]

delegateOfShared(r) == 1

\* The delegator a request's handler writes through: the one allocated for
\* the request.
delegateOf(r) == r

\* Entry of the closure up to the call of handlerFunc: f.Inc(), defer f.Dec(),
\* the fresh delegator, the capability probes and the variant choice.
\* Requests are numbered in the order they arrive.
Enter(r) ==
    /\ pc[r] = "idle"
    /\ r <= load.reqs
    /\ \A q \in Reqs : q < r => pc[q] # "idle"
    /\ \E i \in Mws : \E m \in load.methods :
        /\ mw[i].state = "closure"
        /\ via' = [via EXCEPT ![r] = i]
        /\ method' = [method EXCEPT ![r] = m]
        /\ inFlightReq' = [inFlightReq EXCEPT ![mw[i].handles.inFlightReq] = GaugeInc(@, m)]
    /\ probes' = Probe(probes)
    /\ rw' = [rw EXCEPT ![r] = SelectVariant(w)]
    /\ delegate' = [delegate EXCEPT ![r] = NewDelegator]
    /\ pc' = [pc EXCEPT ![r] = "handler"]
    /\ UNCHANGED <<construction, reqCnt, reqDur, resSz, w, outcome, call, ret, calls, load>>

\* The handler of r is running and may make a further call.
InHandler(r) == pc[r] = "handler" /\ calls < load.calls

\* The handler calls rw.WriteHeader(code).
HWriteHeader(r) ==
    /\ InHandler(r)
    /\ \E code \in Codes :
        /\ delegate' = [delegate EXCEPT ![delegateOf(r)] = WriteHeader(Begin(@), code)]
        /\ call' = [call EXCEPT ![r] = HCall("WriteHeader", code, @.k + 1)]
    /\ ret' = [ret EXCEPT ![r] = NoRet]
    /\ calls' = calls + 1
    /\ UNCHANGED <<construction, metrics, probes, w, via, load, pc, outcome, method, rw>>

\* The handler calls rw.Write(b) with len(b) = len; the embedded writer
\* answers (n, err).
HWrite(r) ==
    /\ InHandler(r)
    /\ \E len \in 1..load.len : \E res \in InnerResults(len) :
        /\ delegate' = [delegate EXCEPT ![delegateOf(r)] = Write(Begin(@), len, res[1], res[2])]
        /\ call' = [call EXCEPT ![r] = HCall("Write", len, @.k + 1)]
        /\ ret' = [ret EXCEPT ![r] = Return(res[1], res[2])]
    /\ calls' = calls + 1
    /\ UNCHANGED <<construction, metrics, probes, w, via, load, pc, outcome, method, rw>>

RecordsAlways(o) == TRUE

RecordsNever(o) == FALSE

\* The statements after handlerFunc(rw, r) run only when it returns.
Records(o) == o = "returned"

UnwindNoDefer(o) == IF o = "returned" THEN "dec" ELSE "done"

\* defer f.Dec(): the decrement runs however handlerFunc ends.
Unwind(o) == "dec"

\* handlerFunc ends with outcome o, and what it held of its last call is
\* gone.  After a return: code := sanitizeCode(delegate.status),
\* reqCnt.WithLabelValues(method, code).Inc(), reqDur.Observe(elapsed) and
\* resSz.Observe(float64(delegate.written)).  The deferred f.Dec() is left.
End(r, o) ==
    /\ pc' = [pc EXCEPT ![r] = Unwind(o)]
    /\ outcome' = [outcome EXCEPT ![r] = o]
    /\ call' = [call EXCEPT ![r] = NoCall]
    /\ ret' = [ret EXCEPT ![r] = NoRet]
    /\ IF Records(o)
       THEN /\ reqCnt' = [reqCnt EXCEPT ![handles(r).reqCnt] =
                            @ (+) SetToBag({<<sanitizeMethod(method[r]),
                                              sanitizeCode(delegate[delegateOf(r)].status)>>})]
            /\ reqDur' = [reqDur EXCEPT ![handles(r).reqDur] = @ + 1]
            /\ resSz' = [resSz EXCEPT ![handles(r).resSz] =
                            @ (+) SetToBag({delegate[delegateOf(r)].written})]
       ELSE UNCHANGED <<reqCnt, reqDur, resSz>>
    /\ UNCHANGED inFlightReq

\* The handler asserts rw.(io.ReaderFrom) and calls ReadFrom on a reader
\* holding len bytes.  A failed assertion inside the delegator panics.
HReadFrom(r) ==
    /\ InHandler(r)
    /\ "ReaderFrom" \in Exposes(rw[r])
    /\ IF Asserts(w, "ReaderFrom")
       THEN /\ \E len \in 1..load.len : \E res \in InnerResults(len) :
                /\ delegate' = [delegate EXCEPT ![delegateOf(r)] = ReadFrom(Begin(@), len, res[1], res[2])]
                /\ call' = [call EXCEPT ![r] = HCall("ReadFrom", len, @.k + 1)]
                /\ ret' = [ret EXCEPT ![r] = Return(res[1], res[2])]
            /\ calls' = calls + 1
            /\ UNCHANGED <<metrics, pc, outcome>>
       ELSE /\ delegate' = [delegate EXCEPT ![delegateOf(r)] = ImplicitHeader(Begin(@))]
            /\ End(r, "assertion")
            /\ UNCHANGED calls
    /\ UNCHANGED <<construction, probes, w, via, load, method, rw>>

\* The handler asserts rw.(http.Flusher), rw.(http.CloseNotifier) or
\* rw.(http.Hijacker) and calls the method: a pure forward.
HForward(r) ==
    /\ InHandler(r)
    /\ \E op \in DOMAIN ForwardOps :
        /\ ForwardOps[op] \in Exposes(rw[r])
        /\ IF Asserts(w, ForwardOps[op])
           THEN /\ delegate' = [delegate EXCEPT ![delegateOf(r)] = Forward(Begin(@), op, 0, 0, FALSE)]
                /\ call' = [call EXCEPT ![r] = HCall(op, 0, @.k + 1)]
                /\ ret' = [ret EXCEPT ![r] = NoRet]
                /\ calls' = calls + 1
                /\ UNCHANGED <<metrics, pc, outcome>>
           ELSE /\ End(r, "assertion")
                /\ UNCHANGED <<delegate, calls>>
    /\ UNCHANGED <<construction, probes, w, via, load, method, rw>>

\* The handler calls rw.Header(), which both variants have from the
\* embedded http.ResponseWriter.
HHeader(r) ==
    /\ InHandler(r)
    /\ delegate' = [delegate EXCEPT ![delegateOf(r)] = Forward(Begin(@), "Header", 0, 0, FALSE)]
    /\ call' = [call EXCEPT ![r] = HCall("Header", 0, @.k + 1)]
    /\ ret' = [ret EXCEPT ![r] = NoRet]
    /\ calls' = calls + 1
    /\ UNCHANGED <<construction, metrics, probes, w, via, load, pc, outcome, method, rw>>

\* handlerFunc returns, at its end or early.
HReturn(r) ==
    /\ pc[r] = "handler"
    /\ End(r, "returned")
    /\ UNCHANGED <<construction, probes, w, via, load, method, rw, delegate, calls>>

\* handlerFunc panics.
HPanic(r) ==
    /\ pc[r] = "handler"
    /\ End(r, "panicked")
    /\ UNCHANGED <<construction, probes, w, via, load, method, rw, delegate, calls>>

\* The deferred f.Dec() on the gauge child fetched at entry; the closure
\* returns and its locals are gone.
Dec(r) ==
    /\ pc[r] = "dec"
    /\ inFlightReq' = [inFlightReq EXCEPT ![handles(r).inFlightReq] = GaugeDec(@, method[r])]
    /\ via' = [via EXCEPT ![r] = 0]
    /\ pc' = [pc EXCEPT ![r] = "done"]
    /\ method' = [method EXCEPT ![r] = "none"]
    /\ rw' = [rw EXCEPT ![r] = "none"]
    /\ delegate' = [delegate EXCEPT ![r] = NoDelegator]
    /\ UNCHANGED <<construction, reqCnt, reqDur, resSz, probes, w, load, outcome, call, ret, calls>>

Next ==
    \/ \E i \in Mws : Construct(i)
    \/ \E r \in Reqs :
        \/ Enter(r)
        \/ HWriteHeader(r)
        \/ HWrite(r)
        \/ HReadFrom(r)
        \/ HForward(r)
        \/ HHeader(r)
        \/ HReturn(r)
        \/ HPanic(r)
        \/ Dec(r)

Spec == Init /\ [][Next]_vars

\* ------------------------------------------------------------ properties
\* The request is inside the middleware closure.
InFlight(r) == pc[r] \in {"handler", "dec"}

\* The calls that produce response body.
Body == {"Write", "ReadFrom"}

\* This step is a call of r's handler on its response writer.
Acted(r) == call'[r] # call[r] /\ call'[r] # NoCall

\* This step is the normal return of r's handler.
Returns(r) == pc[r] = "handler" /\ outcome'[r] = "returned"

\* This step is a panic of r's handler.
Panics(r) == pc[r] = "handler" /\ outcome'[r] = "panicked"

\* Every in-flight gauge is at zero at every label.
GaugesAtZero == \A c \in DOMAIN inFlightReq : inFlightReq[c] = GaugeZero

\* C1: when the handler returns after WriteHeader was called (explicitly, or
\* implicitly by a body write), the counter is incremented at the code of the
\* first WriteHeader call, whatever codes later calls passed.
C1_FirstStatusWins ==
    [][\A r \in Reqs :
        Returns(r) /\ delegate[r].wroteHeader =>
            reqCnt' = [reqCnt EXCEPT ![handles(r).reqCnt] =
                          @ (+) SetToBag({<<sanitizeMethod(method[r]),
                                            sanitizeCode(delegate[r].first)>>})]]_vars

\* C2: the value a returning request observes into the response-size summary
\* is the sum of the byte counts its embedded writer returned for the
\* Write and ReadFrom calls of the request.
C2_SummaryObservesBytesWritten ==
    [][\A r \in Reqs :
        Returns(r) =>
            resSz' = [resSz EXCEPT ![handles(r).resSz] =
                         @ (+) SetToBag({delegate[r].bytes})]]_vars

\* A request has returned after a short write that followed an earlier
\* write, and the summary holds the sum of what the writer accepted.
C2_Witness ==
    \E r \in Reqs :
        /\ pc[r] = "dec" /\ outcome[r] = "returned"
        /\ delegate[r].sent # <<>>
        /\ LET p == delegate[r].sent[Len(delegate[r].sent)] IN
            /\ p.op \in Body
            /\ p.n < p.arg
            /\ delegate[r].bytes > p.n
        /\ BagIn(delegate[r].bytes, resSz[handles(r).resSz])

\* C3: a body write made while no status is set records status 200 and
\* forwards WriteHeader(200) and then the payload to the embedded writer; a
\* body write made after a status was set forwards the payload alone and
\* leaves the recorded status as it was.
C3_ImplicitStatusBeforeBody ==
    [][\A r \in Reqs :
        Acted(r) /\ call'[r].op \in Body =>
            LET d  == delegate[r]
                d2 == delegate'[r]
                p  == d2.sent[Len(d2.sent)]
            IN  /\ d2.sent # <<>>
                /\ p.op = call'[r].op
                /\ p.arg = call'[r].arg
                /\ IF ~d.wroteHeader
                   THEN /\ d2.status = StatusOK
                        /\ d2.wroteHeader
                        /\ Len(d2.sent) = 2
                        /\ d2.sent[1] = Call("WriteHeader", StatusOK, 0, FALSE)
                   ELSE /\ Len(d2.sent) = 1
                        /\ d2.status = d.status]_vars

\* A handler's first call was a body write: the writer received
\* WriteHeader(200) and then the payload, and 200 is recorded.
C3_Witness ==
    \E r \in Reqs :
        /\ pc[r] = "handler"
        /\ call[r].op \in Body /\ call[r].k = 1
        /\ Len(delegate[r].sent) = 2
        /\ delegate[r].sent[1].op = "WriteHeader"
        /\ delegate[r].status = StatusOK

\* C4: entering the closure increments the gauge once at the request's
\* method, every way out of the handler (return, early return, panic) leads
\* to the one decrement at the same label and changes the gauge in no other
\* way, and when the last request in flight leaves, the gauge is back at
\* zero.
C4_GaugeIncDecPair ==
    [][\A r \in Reqs :
        /\ pc[r] = "idle" /\ pc'[r] # "idle" =>
              inFlightReq' = [inFlightReq EXCEPT
                                 ![mw[via'[r]].handles.inFlightReq][method'[r]] = @ + 1]
        /\ pc[r] = "handler" /\ pc'[r] # "handler" =>
              pc'[r] = "dec" /\ inFlightReq' = inFlightReq
        /\ pc[r] # "done" /\ pc'[r] = "done" =>
              /\ pc[r] = "dec"
              /\ inFlightReq' = [inFlightReq EXCEPT
                                    ![handles(r).inFlightReq][method[r]] = @ - 1]
              /\ (\A q \in Reqs \ {r} : ~InFlight(q)) => GaugesAtZero']_vars

\* A request whose handler panicked has left, and the gauge is at zero.
C4_Witness ==
    \E r \in Reqs :
        /\ pc[r] = "done" /\ outcome[r] = "panicked"
        /\ GaugesAtZero

\* C5: a panic of the handler changes neither the request counter nor the
\* histogram nor the summary, then or when the request leaves, and the
\* request still decrements the gauge.
C5_PanicSkipsRecording ==
    [][\A r \in Reqs :
        /\ Panics(r) => pc'[r] = "dec" /\ UNCHANGED <<reqCnt, reqDur, resSz>>
        /\ outcome[r] = "panicked" /\ pc[r] # pc'[r] =>
              /\ UNCHANGED <<reqCnt, reqDur, resSz>>
              /\ inFlightReq'[handles(r).inFlightReq][method[r]]
                    = inFlightReq[handles(r).inFlightReq][method[r]] - 1]_vars

\* A handler wrote, then panicked; the request has left and nothing was
\* counted or observed.
C5_Witness ==
    \E r \in Reqs :
        /\ pc[r] = "done" /\ outcome[r] = "panicked"
        /\ calls > 0
        /\ \A c \in DOMAIN reqCnt : reqCnt[c] = EmptyBag
        /\ \A c \in DOMAIN reqDur : reqDur[c] = 0
        /\ \A c \in DOMAIN resSz : resSz[c] = EmptyBag

\* C6: at every label a gauge equals the number of requests with that
\* method that are inside the closure.
C6_GaugeCountsInFlight ==
    \A c \in DOMAIN inFlightReq : \A m \in Methods :
        inFlightReq[c][m] = Cardinality({r \in Reqs : /\ InFlight(r)
                                                      /\ method[r] = m
                                                      /\ handles(r).inFlightReq = c})

\* Two requests overlap and the gauge is at 2.
C6_Witness == \E c \in DOMAIN inFlightReq : \E m \in Methods : inFlightReq[c][m] = 2

\* C7: a request entering the closure gets a delegator with the zero values,
\* and whenever a delegator changes, no other request than its own has
\* taken a step.
C7_StatsIsolated ==
    [][\A q \in Reqs :
        delegate'[q] # delegate[q] =>
            /\ \A r \in Reqs \ {q} : call'[r] = call[r] /\ pc'[r] = pc[r]
            /\ pc[q] = "idle" =>
                  /\ delegate'[q].status = 0
                  /\ delegate'[q].written = 0
                  /\ ~delegate'[q].wroteHeader]_vars

\* Two handlers run at once; one has written a byte under status 200, the
\* other has set 404 and written nothing.
C7_Witness ==
    \E r, q \in Reqs :
        /\ r # q
        /\ pc[r] = "handler" /\ pc[q] = "handler"
        /\ delegate[r].status = StatusOK /\ delegate[r].written = 1
        /\ delegate[q].status = 404 /\ delegate[q].written = 0

\* C8: the response writer handed to the handler implements every optional
\* interface the server's ResponseWriter implements.
C8_PreservesCapabilities ==
    \A r \in Reqs : InFlight(r) => w \subseteq Exposes(rw[r])

\* C9: the response writer handed to the handler implements an optional
\* interface only if the server's ResponseWriter implements it, and no call
\* through it ends in a failed type assertion.
C9_NoUnsupportedCapability ==
    \A r \in Reqs :
        /\ InFlight(r) => Exposes(rw[r]) \subseteq w
        /\ outcome[r] # "assertion"

\* A handler runs over a ResponseWriter that implements all the probed
\* interfaces but io.ReaderFrom, and has made a call.
C9_Witness ==
    \E r \in Reqs :
        /\ pc[r] = "handler"
        /\ w = Fancy \ {"ReaderFrom"}
        /\ call[r] # NoCall

\* C10: a Write or ReadFrom on the delegator returns the byte count and the
\* error the embedded writer returned, and adds that byte count to written.
C10_WriteResultPassedThrough ==
    [][\A r \in Reqs :
        Acted(r) /\ call'[r].op \in Body =>
            LET p == delegate'[r].sent[Len(delegate'[r].sent)] IN
                /\ ret'[r] = <<p.n, p.err>>
                /\ delegate'[r].written = delegate[r].written + p.n]_vars

\* A Write of two bytes was cut short after one: the handler got (1, error)
\* and one byte was added.
C10_Witness ==
    \E r \in Reqs :
        /\ call[r].op = "Write" /\ call[r].arg = 2
        /\ ret[r] = <<1, TRUE>>
        /\ delegate[r].written = 1

\* C11: of every WriteHeader or Write call the handler makes, the embedded
\* writer receives that call, once and with the argument the handler passed,
\* a repeated WriteHeader too; it receives nothing else but one
\* WriteHeader(200) right before the payload of a Write made while no status
\* is set.
C11_ForwardsEveryCall ==
    [][\A r \in Reqs :
        Acted(r) /\ call'[r].op \in {"WriteHeader", "Write"} =>
            LET added == IF call'[r].op = "Write" /\ ~delegate[r].wroteHeader
                         THEN <<[op |-> "WriteHeader", arg |-> StatusOK]>>
                         ELSE <<>>
                got == [k \in DOMAIN delegate'[r].sent |->
                           [op |-> delegate'[r].sent[k].op, arg |-> delegate'[r].sent[k].arg]]
            IN  got = added \o <<[op |-> call'[r].op, arg |-> call'[r].arg]>>]_vars

\* A handler has set 404 and then 200, and the embedded writer received the
\* second WriteHeader as it did the first.
C11_Witness ==
    \E r \in Reqs :
        /\ call[r] = HCall("WriteHeader", StatusOK, 2)
        /\ delegate[r].first = 404
        /\ delegate[r].sent = <<Call("WriteHeader", StatusOK, 0, FALSE)>>

\* Middleware i was constructed by InstrumentHandlerFunc with a handler name.
Named(i) == mw[i].state = "closure" /\ load.opts[i] # NoLabels

\* C12: two middlewares constructed with different handler names hold
\* different collectors of each of the four kinds, so that a request served
\* through one changes no metric the other holds.
C12_HandlesScopedByName ==
    \A i, j \in Mws :
        Named(i) /\ Named(j) /\ load.opts[i] # load.opts[j] =>
            \A k \in DOMAIN mw[i].handles : mw[i].handles[k] # mw[j].handles[k]

\* C13: a construction with the Opts of an earlier construction that
\* returned a closure returns a closure too, and holds the very handles the
\* earlier one holds, all of them collectors the registry has: the
\* middlewares of one configuration record into the same metrics.
C13_RegistrationIdempotent ==
    \A i, j \in Mws :
        /\ i < j
        /\ mw[i].state = "closure"
        /\ mw[j] # NoMw
        /\ load.opts[i] = load.opts[j]
        => /\ mw[j].state = "closure"
           /\ mw[j].handles = mw[i].handles
           /\ \A k \in DOMAIN mw[j].handles : mw[j].handles[k] \in registry

\* Two middlewares were constructed with the same Opts; a request through
\* each has returned, and both are counted by the one counter registered by
\* the first construction.
C13_Witness ==
    \E r, q \in Reqs :
        /\ Len(load.opts) > 1
        /\ load.opts[1] = load.opts[2]
        /\ via[r] = 1 /\ via[q] = 2
        /\ outcome[r] = "returned" /\ outcome[q] = "returned"
        /\ handles(q).reqCnt.by = 1
        /\ BagCardinality(reqCnt[handles(q).reqCnt]) = 2

\* C14: the gauge is decremented for a returning request before the request
\* is counted and observed: no request that the counter, the histogram and
\* the summary have recorded is still inside the closure, counted by the
\* gauge.
C14_DecBeforeRecording ==
    \A r \in Reqs : outcome[r] = "returned" => ~InFlight(r)

RECURSIVE SumOver(_, _)
\* The sum of f over the set S.
SumOver(f, S) ==
    IF S = {} THEN 0
    ELSE LET c == CHOOSE x \in S : TRUE IN f[c] + SumOver(f, S \ {c})

\* Increments of all request counters, and observations of all histograms
\* and of all summaries.
Counted == SumOver([c \in DOMAIN reqCnt |-> BagCardinality(reqCnt[c])], DOMAIN reqCnt)
ObservedDur == SumOver(reqDur, DOMAIN reqDur)
ObservedSz == SumOver([c \in DOMAIN resSz |-> BagCardinality(resSz[c])], DOMAIN resSz)

\* C15: whatever other requests are doing, the return of a handler adds one
\* to the counter its middleware holds, at the pair of the request's own
\* canonical method and recorded status, and one observation to its
\* histogram and to its summary, and changes no other counter, histogram
\* or summary; no other step of a request changes any of them; and once no
\* request is in flight, the increments of the counters, the observations
\* of the histograms and those of the summaries each number the requests
\* whose handler returned.
C15_RecordsOncePerReturn ==
    [][/\ \A r \in Reqs :
            Returns(r) =>
                /\ reqCnt' = [reqCnt EXCEPT ![handles(r).reqCnt] =
                                 @ (+) SetToBag({<<sanitizeMethod(method[r]),
                                                   sanitizeCode(delegate[r].status)>>})]
                /\ reqDur' = [reqDur EXCEPT ![handles(r).reqDur] = @ + 1]
                /\ \A c \in DOMAIN resSz :
                     BagCardinality(resSz'[c]) = BagCardinality(resSz[c])
                        + (IF c = handles(r).resSz THEN 1 ELSE 0)
       /\ (\A r \in Reqs : ~Returns(r)) /\ pc' # pc => UNCHANGED <<reqCnt, reqDur, resSz>>
       /\ (\A r \in Reqs : ~InFlight(r))' =>
            LET returned == Cardinality({r \in Reqs : outcome'[r] = "returned"}) IN
                Counted' = returned /\ ObservedDur' = returned /\ ObservedSz' = returned]_vars

\* Two requests were in their handlers at once, one set 404 and the other
\* wrote under the implicit 200; both have returned and each is counted at
\* its own status.
C15_Witness ==
    \E r, q \in Reqs :
        /\ r # q
        /\ pc[r] = "dec" /\ pc[q] = "dec"
        /\ outcome[r] = "returned" /\ outcome[q] = "returned"
        /\ delegate[r].status = 404 /\ delegate[q].status = StatusOK
        /\ BagIn(<<sanitizeMethod(method[r]), "404">>, reqCnt[handles(r).reqCnt])
        /\ BagIn(<<sanitizeMethod(method[q]), "200">>, reqCnt[handles(q).reqCnt])
        /\ Counted = 2 /\ ObservedDur = 2 /\ ObservedSz = 2

\* C16: when a handler returns and its response writer was given neither a
\* status nor any body, the embedded writer having received no WriteHeader
\* and no payload, the request is counted at code "0", not at "200", and
\* the summary observes 0.
C16_UnwrittenRecordedAsZero ==
    [][\A r \in Reqs :
        Returns(r) /\ delegate[r].first = 0 /\ delegate[r].bytes = 0 =>
            LET m == sanitizeMethod(method[r]) IN
                /\ reqCnt'[handles(r).reqCnt] = reqCnt[handles(r).reqCnt] (+) SetToBag({<<m, "0">>})
                /\ CopiesIn(<<m, "200">>, reqCnt'[handles(r).reqCnt])
                     = CopiesIn(<<m, "200">>, reqCnt[handles(r).reqCnt])
                /\ resSz'[handles(r).resSz] = resSz[handles(r).resSz] (+) SetToBag({0})]_vars

\* A handler flushed and returned: the request is counted at code "0" and
\* the summary holds a 0.
C16_Witness ==
    \E r \in Reqs :
        /\ pc[r] = "dec" /\ outcome[r] = "returned"
        /\ calls = 1
        /\ delegate[r].first = 0
        /\ BagIn(<<sanitizeMethod(method[r]), "0">>, reqCnt[handles(r).reqCnt])
        /\ BagIn(0, resSz[handles(r).resSz])

\* The methods of the delegators that only forward.
PureForward == DOMAIN ForwardOps \cup {"Header"}

\* C17: a call of Header, Flush, CloseNotify or Hijack on the response
\* writer reaches the embedded writer and leaves status, written and
\* wroteHeader of the request as they were before the call.
C17_PureForwardKeepsStats ==
    [][\A r \in Reqs :
        Acted(r) /\ call'[r].op \in PureForward =>
            /\ delegate'[r].sent = <<Call(call'[r].op, 0, 0, FALSE)>>
            /\ delegate'[r].status = delegate[r].status
            /\ delegate'[r].written = delegate[r].written
            /\ delegate'[r].wroteHeader = delegate[r].wroteHeader]_vars

\* A handler flushed before it set any status: the delegator still holds
\* its zero values.
C17_Witness ==
    \E r \in Reqs :
        /\ pc[r] = "handler"
        /\ call[r] = HCall("Flush", 0, 1)
        /\ delegate[r].status = 0
        /\ delegate[r].written = 0
        /\ ~delegate[r].wroteHeader

\* C18: no step of a request inside the closure lowers written: after every
\* call on the response writer, and at the handler's end, it is at least
\* what it was before, and a call that is no Write or ReadFrom leaves it as
\* it was.
C18_WrittenNeverDecreases ==
    [][\A r \in Reqs :
        InFlight(r) /\ InFlight(r)' =>
            /\ delegate'[r].written >= delegate[r].written
            /\ ~(Acted(r) /\ call'[r].op \in Body) =>
                  delegate'[r].written = delegate[r].written]_vars

\* After two bytes were written, a further write was refused whole, and
\* written still counts the two bytes.
C18_Witness ==
    \E r \in Reqs :
        /\ call[r].op \in Body /\ call[r].k = 2
        /\ ret[r] = <<0, TRUE>>
        /\ delegate[r].written = 2

C20_HeaderBeforeBytes ==
    [][\A r \in Reqs :
        InFlight(r)' =>
            /\ InFlight(r) /\ delegate[r].wroteHeader => delegate'[r].wroteHeader
            /\ delegate'[r].written > 0 => delegate'[r].wroteHeader]_vars

\* A handler's first call was a ReadFrom that copied two bytes: wroteHeader
\* is set and the bytes are counted.
C20_Witness ==
    \E r \in Reqs :
        /\ call[r] = HCall("ReadFrom", 2, 1)
        /\ delegate[r].wroteHeader
        /\ delegate[r].written = 2

=============================================================================
